---- MODULE Spec2Model ----
(***************************************************************************)
(* GekkoMath: the fixed-point scalar Unit (Q16.15 in an int32_t) and the  *)
(* three-component vector Vec3 of include/gekko_math.h.                    *)
(*                                                                         *)
(* A Unit is modelled by its raw int32_t encoding.  The 64-bit             *)
(* intermediates of operator* and operator/ do not fit the model           *)
(* checker's integers, so an int64_t is modelled as a sign and a           *)
(* magnitude of five radix-2^15 limbs, with the C++ operations on it       *)
(* (widening, +, *, truncating /, narrowing) written out on the limbs.     *)
(* int32_t additions, subtractions, negations and the scaling              *)
(* multiplication of the converting constructor wrap modulo 2^32, the      *)
(* behaviour of the two's-complement builds the library is written for.    *)
(***************************************************************************)
EXTENDS Integers, Sequences, FiniteSets

\* ------------------------------------------------------------ constants

ONE == 32768

HALF == 16384

MAX_ITER == 10

MaxInt32 == 2147483647

MinInt32 == -MaxInt32 - 1

\* Radix of the limbs that encode an int64_t.
Base == 2^15

\* Number of limbs: 75 bits, more than the 63 an int64_t magnitude needs.
Limbs == 1..5

\* ------------------------------------------------- int64_t, limb by limb

ZeroMag == <<0, 0, 0, 0, 0>>

\* Magnitude of a non-negative int32_t value.
MagOfNat(m) ==
  [k \in Limbs |-> CASE k = 1 -> m % Base
                     [] k = 2 -> (m \div Base) % Base
                     [] k = 3 -> m \div (Base * Base)
                     [] OTHER -> 0]

\* static_cast<int64_t>(i) of an int32_t i.
I64(i) ==
  IF i >= 0 THEN [neg |-> FALSE, mag |-> MagOfNat(i)]
  ELSE IF i = MinInt32 THEN [neg |-> TRUE, mag |-> [k \in Limbs |-> IF k = 3 THEN 2 ELSE 0]]
  ELSE [neg |-> TRUE, mag |-> MagOfNat(-i)]

RECURSIVE MagCmpFrom(_, _, _)
\* -1, 0, 1 as p < q, p = q, p > q, comparing limbs k, k-1, ..., 1.
MagCmpFrom(p, q, k) ==
  IF k = 0 THEN 0
  ELSE IF p[k] < q[k] THEN -1
  ELSE IF p[k] > q[k] THEN 1
  ELSE MagCmpFrom(p, q, k - 1)

MagCmp(p, q) == MagCmpFrom(p, q, 5)

RECURSIVE CarryInto(_, _, _)
\* Carry into limb k of p + q.
CarryInto(p, q, k) ==
  IF k = 1 THEN 0 ELSE (p[k - 1] + q[k - 1] + CarryInto(p, q, k - 1)) \div Base

MagAdd(p, q) == [k \in Limbs |-> (p[k] + q[k] + CarryInto(p, q, k)) % Base]

RECURSIVE BorrowFrom(_, _, _)
\* Borrow taken from limb k of p - q (p >= q).
BorrowFrom(p, q, k) ==
  IF k = 1 THEN 0 ELSE IF p[k - 1] - q[k - 1] - BorrowFrom(p, q, k - 1) < 0 THEN 1 ELSE 0

MagSub(p, q) == [k \in Limbs |-> (p[k] - q[k] - BorrowFrom(p, q, k)) % Base]

RECURSIVE MulCarryInto(_, _, _)
\* Carry into limb k of p * d, d one limb.
MulCarryInto(p, d, k) ==
  IF k = 1 THEN 0 ELSE (p[k - 1] * d + MulCarryInto(p, d, k - 1)) \div Base

MagMulLimb(p, d) == [k \in Limbs |-> (p[k] * d + MulCarryInto(p, d, k)) % Base]

\* p * Base^s.
MagShift(p, s) == [k \in Limbs |-> IF k - s >= 1 THEN p[k - s] ELSE 0]

\* p * q for magnitudes of at most three limbs each (int32_t operands).
MagMul(p, q) ==
  MagAdd(MagMulLimb(p, q[1]),
         MagAdd(MagShift(MagMulLimb(p, q[2]), 1), MagShift(MagMulLimb(p, q[3]), 2)))

I64Norm(neg, mag) == [neg |-> neg /\ mag # ZeroMag, mag |-> mag]

I64Neg(x) == I64Norm(~x.neg, x.mag)

\* int64_t + int64_t (no overflow arises: every operand is below 2^63).
I64Add(x, y) ==
  IF x.neg = y.neg THEN I64Norm(x.neg, MagAdd(x.mag, y.mag))
  ELSE IF MagCmp(x.mag, y.mag) >= 0 THEN I64Norm(x.neg, MagSub(x.mag, y.mag))
  ELSE I64Norm(y.neg, MagSub(y.mag, x.mag))

\* int64_t * int64_t, both operands widened int32_t values.
I64Mul(x, y) == I64Norm(x.neg # y.neg, MagMul(x.mag, y.mag))

I64Less(x, y) ==
  IF x.neg # y.neg THEN x.neg
  ELSE IF x.neg THEN MagCmp(x.mag, y.mag) > 0
  ELSE MagCmp(x.mag, y.mag) < 0

I64LessEq(x, y) == ~I64Less(y, x)

\* Bit j (14 the most significant) of limb d.
BitOf(d, j) == (d \div (2^j)) % 2

RECURSIVE DivLimb(_, _, _, _)
\* Long division, one bit a step, of the bits j, j-1, ..., 0 of limb d by
\* -nd (nd < 0, so that a divisor of magnitude 2^31 is an integer of the
\* checker).  st.rem < -nd is the running remainder, st.q the quotient
\* bits of this limb so far.
DivLimb(st, nd, d, j) ==
  IF j < 0 THEN st
  ELSE LET t == (st.rem + nd) + BitOf(d, j) + st.rem   \* 2*rem + bit - |d|
       IN IF t >= 0 THEN DivLimb([rem |-> t, q |-> st.q + 2^j], nd, d, j - 1)
          ELSE DivLimb([rem |-> t - nd, q |-> st.q], nd, d, j - 1)

\* Magnitude of p / |d|, rounded down, d a non-zero int32_t: the limbs
\* from the most significant down, each starting from the remainder the
\* limb above left.
MagDiv(p, d) ==
  LET nd == IF d < 0 THEN d ELSE -d
      s5 == DivLimb([rem |-> 0, q |-> 0], nd, p[5], 14)
      s4 == DivLimb([rem |-> s5.rem, q |-> 0], nd, p[4], 14)
      s3 == DivLimb([rem |-> s4.rem, q |-> 0], nd, p[3], 14)
      s2 == DivLimb([rem |-> s3.rem, q |-> 0], nd, p[2], 14)
      s1 == DivLimb([rem |-> s2.rem, q |-> 0], nd, p[1], 14)
  IN <<s1.q, s2.q, s3.q, s4.q, s5.q>>

\* int64_t / int32_t: C++ division, which truncates toward zero.
I64Div(x, d) == I64Norm(x.neg # (d < 0), MagDiv(x.mag, d))

\* static_cast<int32_t>(x): the low 32 bits, read as two's complement.
I32(x) ==
  LET low30 == x.mag[1] + x.mag[2] * Base
      top2 == x.mag[3] % 4
      s == IF top2 < 2 THEN top2 * (Base * Base) + low30
           ELSE (top2 - 4) * (Base * Base) + low30
  IN IF ~x.neg THEN s ELSE IF s = MinInt32 THEN MinInt32 ELSE -s

\* ---------------------------------------------------- int32_t arithmetic

Add32(p, q) == I32(I64Add(I64(p), I64(q)))

Sub32(p, q) == I32(I64Add(I64(p), I64Neg(I64(q))))

Neg32(p) == I32(I64Neg(I64(p)))

Mul32(p, q) == I32(I64Mul(I64(p), I64(q)))

\* std::abs(int): the negation wraps for INT32_MIN.
Abs32(p) == IF p < 0 THEN Neg32(p) ELSE p

\* ------------------------------------------------------------------ Unit

\* Unit(int32_t val) : _raw(val * ONE)
FromInteger(val) == Mul32(val, ONE)

\* Unit::From(val)
From(val) == val

UnitGt(p, q) == p > q

UnitGe(p, q) == p >= q

UnitLt(p, q) == p < q

UnitLe(p, q) == p <= q

\* Mutant of UnitLtInt: the integer is converted to a Unit before the
\* comparison.
UnitLtIntScaled(p, m) == p < FromInteger(m)

\* The overloads taking const int32_t&: p a Unit (raw), m the integer.
UnitGtInt(p, m) == p > m

UnitGeInt(p, m) == p >= m

UnitLtInt(p, m) == p < m

UnitLeInt(p, m) == p <= m

UnitNeg(p) == From(Neg32(p))

\* Mutant of UnitAdd: a sum outside the int32_t range is clamped to it.
UnitAddSaturating(p, q) ==
  LET sum == I64Add(I64(p), I64(q))
  IN IF I64Less(I64(MaxInt32), sum) THEN From(MaxInt32)
     ELSE IF I64Less(sum, I64(MinInt32)) THEN From(MinInt32)
     ELSE From(I32(sum))

UnitAdd(p, q) == From(Add32(p, q))

UnitSub(p, q) == From(Sub32(p, q))

\* Mutant of DivThrows: every non-positive divisor is refused.
DivThrowsNonPositive(q) == q <= 0

\* operator/ throws std::runtime_error("Division by zero").
DivThrows(q) == q = 0

\* operator/ when it does not throw.
UnitDiv(p, q) ==
  LET num == I64Mul(I64(p), I64(ONE))
      adjust == I64(Abs32(q) \div 2)
  IN From(I32(I64Div(I64Add(num, IF q > 0 THEN adjust ELSE I64Neg(adjust)), q)))

UnitMul(p, q) ==
  LET result == I64Mul(I64(p), I64(q))
  IN From(I32(I64Div(I64Add(result, I64(ONE \div 2)), ONE)))

UnitEq(p, q) == p = q

\* Mutant of SqrtThrows: zero is refused with the negative arguments.
SqrtThrowsNonPositive(p) == p <= 0

\* SqrtNewton throws std::runtime_error("sqrt of negative number").
SqrtThrows(p) == p < 0

\* Unit x = (u._raw >= Unit::ONE ? u : Unit::ONE): the third operand is
\* the int32_t constant, converted to Unit by the constructor Unit(int32_t).
InitialGuess(p) == IF p >= ONE THEN p ELSE FromInteger(ONE)

\* Mutant of NewtonStep: only the quotient is halved, x + (u / x) / 2.
NewtonStepQuotientHalved(p, g) == UnitAdd(g, UnitDiv(UnitDiv(p, g), FromInteger(2)))

\* Unit next = (x + (u / x)) / 2, the literal 2 converted by Unit(int32_t);
\* evaluated only when u / x does not throw.
NewtonStep(p, g) == UnitDiv(UnitAdd(g, UnitDiv(p, g)), FromInteger(2))

\* ------------------------------------------------------------------ Vec3

Vec3(xx, yy, zz) == [x |-> xx, y |-> yy, z |-> zz]

VecAdd(p, q) == Vec3(UnitAdd(p.x, q.x), UnitAdd(p.y, q.y), UnitAdd(p.z, q.z))

VecAddUnit(p, q) == Vec3(UnitAdd(p.x, q), UnitAdd(p.y, q), UnitAdd(p.z, q))

VecSub(p, q) == Vec3(UnitSub(p.x, q.x), UnitSub(p.y, q.y), UnitSub(p.z, q.z))

VecSubUnit(p, q) == Vec3(UnitSub(p.x, q), UnitSub(p.y, q), UnitSub(p.z, q))

\* Vec3 / Vec3 throws when any of the three component divisions does.
VecDivThrows(q) == DivThrows(q.x) \/ DivThrows(q.y) \/ DivThrows(q.z)

VecDiv(p, q) == Vec3(UnitDiv(p.x, q.x), UnitDiv(p.y, q.y), UnitDiv(p.z, q.z))

VecDivUnit(p, q) == Vec3(UnitDiv(p.x, q), UnitDiv(p.y, q), UnitDiv(p.z, q))

VecEq(p, q) == UnitEq(p.x, q.x) /\ UnitEq(p.y, q.y) /\ UnitEq(p.z, q.z)

\* ---------------------------------------------------------------- bounds

\* Integers -MaxInteger..MaxInteger are given to Unit(int32_t).
MaxInteger == 6

\* Raw encodings within MaxDelta of 0, of ONE and of the int32_t limits.
MaxDelta == 2

\* Vector components: the int32_t limits and Unit(0), ..., Unit(MaxVecInteger).
MaxVecInteger == 1

\* Square roots are also taken of Unit(2^0), ..., Unit(2^MaxExp).
MaxExp == 15

\* The integers whose square roots TestUnitArithmetic asserts.
RefInputs == {4, 9, 16, 25, 2, 3, 5, 7, 10, 50, 123, 100, 10000, 1}

Integers32 == (-MaxInteger)..MaxInteger

RawInputs ==
  {FromInteger(k) : k \in Integers32}
    \cup ((-MaxDelta)..MaxDelta)
    \cup {ONE + d : d \in (-MaxDelta)..MaxDelta}
    \cup {HALF, -HALF}
    \cup {MinInt32 + d : d \in 0..MaxDelta}
    \cup {MaxInt32 - d : d \in 0..MaxDelta}

IntInputs == Integers32 \cup {HALF, ONE, -ONE, MinInt32, MaxInt32}

VecComps == {MinInt32, MaxInt32} \cup {FromInteger(k) : k \in 0..MaxVecInteger}

VecInputs == [x : VecComps, y : VecComps, z : VecComps]

SqrtInputs ==
  RawInputs \cup {FromInteger(k) : k \in RefInputs} \cup {FromInteger(2^e) : e \in 0..MaxExp}

\* ----------------------------------------------------------------- state

VARIABLES
  mode,       \* which part of the library this run exercises
  pc,         \* "start", then the position in the run, "done" at its end
  op,         \* the operation (or sequence of operations) performed so far
  a, b,       \* Unit operands (raw)
  n,          \* int32_t operand of the comparisons with an integer
  acc,        \* the Unit object the compound assignments act on, Unit acc = a
  v, w,       \* Vec3 operands
  vacc,       \* the Vec3 object the compound assignments act on, Vec3 vacc = v
  r,          \* Unit result (raw) of the last operation that returned one
  rv,         \* Vec3 result of the last operation that returned one
  cmp,        \* results of the four ordering operators
  err,        \* "None", or the error the operation threw
  u,          \* SqrtNewton: the argument
  x,          \* SqrtNewton: the iterate
  i,          \* SqrtNewton: the loop counter
  converged   \* SqrtNewton: the loop was left by its break

vars == <<mode, pc, op, a, b, n, acc, v, w, vacc, r, rv, cmp, err, u, x, i, converged>>

ZeroVec == Vec3(0, 0, 0)

NoCmp == [gt |-> FALSE, ge |-> FALSE, lt |-> FALSE, le |-> FALSE]

Init ==
  /\ pc = "start" /\ op = "none" /\ err = "None"
  /\ r = 0 /\ rv = ZeroVec /\ cmp = NoCmp
  /\ x = 0 /\ i = 0 /\ converged = FALSE
  /\ \/ mode = "arith" /\ a \in RawInputs /\ b \in RawInputs
        /\ n = 0 /\ v = ZeroVec /\ w = ZeroVec /\ u = 0
     \/ mode = "cmp" /\ a \in RawInputs /\ n \in IntInputs
        /\ b = 0 /\ v = ZeroVec /\ w = ZeroVec /\ u = 0
     \/ mode = "vecvec" /\ v \in VecInputs /\ w \in VecInputs
        /\ a = 0 /\ b = 0 /\ n = 0 /\ u = 0
     \/ mode = "vecunit" /\ v \in VecInputs /\ b \in VecComps
        /\ a = 0 /\ n = 0 /\ w = ZeroVec /\ u = 0
     \/ mode = "sqrt" /\ u \in SqrtInputs
        /\ a = 0 /\ b = 0 /\ n = 0 /\ v = ZeroVec /\ w = ZeroVec
  /\ acc = a /\ vacc = v

operands == <<mode, a, b, n, v, w, u>>

sqrtVars == <<x, i, converged>>

\* ------------------------------------------------------ Unit operations

\* r = a * b
Mul ==
  /\ mode = "arith" /\ pc = "start"
  /\ r' = UnitMul(a, b)
  /\ op' = "Mul" /\ pc' = "done"
  /\ UNCHANGED <<operands, acc, vacc, rv, cmp, err, sqrtVars>>

\* acc *= b:  *this = *this * other
MulAssign ==
  /\ mode = "arith" /\ pc = "start"
  /\ acc' = UnitMul(acc, b)
  /\ op' = "MulAssign" /\ pc' = "done"
  /\ UNCHANGED <<operands, vacc, r, rv, cmp, err, sqrtVars>>

\* r = a / b
Div ==
  /\ mode = "arith" /\ pc = "start"
  /\ IF DivThrows(b)
       THEN err' = "DivisionByZero" /\ r' = r
       ELSE err' = err /\ r' = UnitDiv(a, b)
  /\ op' = "Div" /\ pc' = "done"
  /\ UNCHANGED <<operands, acc, vacc, rv, cmp, sqrtVars>>

\* acc /= b:  *this = *this / other; the assignment is not reached when
\* the division throws.
DivAssign ==
  /\ mode = "arith" /\ pc = "start"
  /\ IF DivThrows(b)
       THEN err' = "DivisionByZero" /\ acc' = acc
       ELSE err' = err /\ acc' = UnitDiv(acc, b)
  /\ op' = "DivAssign" /\ pc' = "done"
  /\ UNCHANGED <<operands, vacc, r, rv, cmp, sqrtVars>>

\* a > n, a >= n, a < n, a <= n with the int32_t n: the overloads taking
\* const int32_t& are exact matches, no conversion to Unit takes place.
CompareInt ==
  /\ mode = "cmp" /\ pc = "start"
  /\ cmp' = [gt |-> UnitGtInt(a, n), ge |-> UnitGeInt(a, n),
             lt |-> UnitLtInt(a, n), le |-> UnitLeInt(a, n)]
  /\ op' = "CompareInt" /\ pc' = "done"
  /\ UNCHANGED <<operands, acc, vacc, r, rv, err, sqrtVars>>

\* a > Unit(n), a >= Unit(n), a < Unit(n), a <= Unit(n)
CompareUnit ==
  /\ mode = "cmp" /\ pc = "start"
  /\ cmp' = [gt |-> UnitGt(a, FromInteger(n)), ge |-> UnitGe(a, FromInteger(n)),
             lt |-> UnitLt(a, FromInteger(n)), le |-> UnitLe(a, FromInteger(n))]
  /\ op' = "CompareUnit" /\ pc' = "done"
  /\ UNCHANGED <<operands, acc, vacc, r, rv, err, sqrtVars>>

\* ------------------------------------------------------ Vec3 operations

\* Vec3 sum = v + w
VecPlus ==
  /\ mode = "vecvec" /\ pc = "start"
  /\ rv' = VecAdd(v, w)
  /\ op' = "Add" /\ pc' = "sum"
  /\ UNCHANGED <<operands, acc, vacc, r, cmp, err, sqrtVars>>

\* Vec3 diff = sum - w
VecMinus ==
  /\ mode = "vecvec" /\ pc = "sum"
  /\ rv' = VecSub(rv, w)
  /\ op' = "AddSub" /\ pc' = "done"
  /\ UNCHANGED <<operands, acc, vacc, r, cmp, err, sqrtVars>>

\* vacc += w:  *this = *this + other
VecPlusAssign ==
  /\ mode = "vecvec" /\ pc = "start"
  /\ vacc' = VecAdd(vacc, w)
  /\ op' = "AddAssign" /\ pc' = "added"
  /\ UNCHANGED <<operands, acc, r, rv, cmp, err, sqrtVars>>

\* vacc -= w:  *this = *this - other
VecMinusAssign ==
  /\ mode = "vecvec" /\ pc = "added"
  /\ vacc' = VecSub(vacc, w)
  /\ op' = "AddSubAssign" /\ pc' = "done"
  /\ UNCHANGED <<operands, acc, r, rv, cmp, err, sqrtVars>>

\* rv = v / w
VecOver ==
  /\ mode = "vecvec" /\ pc = "start"
  /\ IF VecDivThrows(w)
       THEN err' = "DivisionByZero" /\ rv' = rv
       ELSE err' = err /\ rv' = VecDiv(v, w)
  /\ op' = "Div" /\ pc' = "done"
  /\ UNCHANGED <<operands, acc, vacc, r, cmp, sqrtVars>>

\* vacc /= w:  *this = *this / other
VecOverAssign ==
  /\ mode = "vecvec" /\ pc = "start"
  /\ IF VecDivThrows(w)
       THEN err' = "DivisionByZero" /\ vacc' = vacc
       ELSE err' = err /\ vacc' = VecDiv(vacc, w)
  /\ op' = "DivAssign" /\ pc' = "done"
  /\ UNCHANGED <<operands, acc, r, rv, cmp, sqrtVars>>

\* Vec3 sum = v + b, the Unit b applied to the three axes
VecPlusUnit ==
  /\ mode = "vecunit" /\ pc = "start"
  /\ rv' = VecAddUnit(v, b)
  /\ op' = "Add" /\ pc' = "sum"
  /\ UNCHANGED <<operands, acc, vacc, r, cmp, err, sqrtVars>>

\* Vec3 diff = sum - b
VecMinusUnit ==
  /\ mode = "vecunit" /\ pc = "sum"
  /\ rv' = VecSubUnit(rv, b)
  /\ op' = "AddSub" /\ pc' = "done"
  /\ UNCHANGED <<operands, acc, vacc, r, cmp, err, sqrtVars>>

\* vacc += b
VecPlusAssignUnit ==
  /\ mode = "vecunit" /\ pc = "start"
  /\ vacc' = VecAddUnit(vacc, b)
  /\ op' = "AddAssign" /\ pc' = "added"
  /\ UNCHANGED <<operands, acc, r, rv, cmp, err, sqrtVars>>

\* vacc -= b
VecMinusAssignUnit ==
  /\ mode = "vecunit" /\ pc = "added"
  /\ vacc' = VecSubUnit(vacc, b)
  /\ op' = "AddSubAssign" /\ pc' = "done"
  /\ UNCHANGED <<operands, acc, r, rv, cmp, err, sqrtVars>>

\* rv = v / b
VecOverUnit ==
  /\ mode = "vecunit" /\ pc = "start"
  /\ IF DivThrows(b)
       THEN err' = "DivisionByZero" /\ rv' = rv
       ELSE err' = err /\ rv' = VecDivUnit(v, b)
  /\ op' = "Div" /\ pc' = "done"
  /\ UNCHANGED <<operands, acc, vacc, r, cmp, sqrtVars>>

\* vacc /= b
VecOverAssignUnit ==
  /\ mode = "vecunit" /\ pc = "start"
  /\ IF DivThrows(b)
       THEN err' = "DivisionByZero" /\ vacc' = vacc
       ELSE err' = err /\ vacc' = VecDivUnit(vacc, b)
  /\ op' = "DivAssign" /\ pc' = "done"
  /\ UNCHANGED <<operands, acc, r, rv, cmp, sqrtVars>>

\* ------------------------------------------------------------ SqrtNewton

\* Entry of SqrtNewton(u): the two early exits, or the initial guess.
SqrtEnter ==
  /\ mode = "sqrt" /\ pc = "start"
  /\ op' = "SqrtNewton"
  /\ IF SqrtThrows(u)
       THEN err' = "InvalidArgument" /\ pc' = "done" /\ UNCHANGED <<r, x>>
       ELSE IF u = 0
         THEN r' = FromInteger(0) /\ pc' = "done" /\ UNCHANGED <<err, x>>
         ELSE x' = InitialGuess(u) /\ pc' = "loop" /\ UNCHANGED <<err, r>>
  /\ UNCHANGED <<operands, acc, vacc, rv, cmp, i, converged>>

\* One pass of the loop body with i < MAX_ITER: next is computed, and the
\* loop is left by break when next == x; u / x throws when x is zero.
SqrtIter ==
  /\ mode = "sqrt" /\ pc = "loop" /\ i < MAX_ITER
  /\ IF DivThrows(x)
       THEN err' = "DivisionByZero" /\ pc' = "done" /\ UNCHANGED <<r, x, i, converged>>
       ELSE IF UnitEq(NewtonStep(u, x), x)
         THEN /\ converged' = TRUE /\ r' = x /\ pc' = "done"
              /\ UNCHANGED <<err, x, i>>
         ELSE /\ x' = NewtonStep(u, x) /\ i' = i + 1
              /\ UNCHANGED <<err, r, pc, converged>>
  /\ UNCHANGED <<operands, op, acc, vacc, rv, cmp>>

\* The loop condition fails, i == MAX_ITER: return x.
SqrtCap ==
  /\ mode = "sqrt" /\ pc = "loop" /\ i >= MAX_ITER
  /\ r' = x /\ pc' = "done"
  /\ UNCHANGED <<operands, op, acc, vacc, rv, cmp, err, sqrtVars>>

\* --------------------------------------------------------- specification

Next ==
  \/ Mul \/ MulAssign \/ Div \/ DivAssign
  \/ CompareInt \/ CompareUnit
  \/ VecPlus \/ VecMinus \/ VecPlusAssign \/ VecMinusAssign
  \/ VecOver \/ VecOverAssign
  \/ VecPlusUnit \/ VecMinusUnit \/ VecPlusAssignUnit \/ VecMinusAssignUnit
  \/ VecOverUnit \/ VecOverAssignUnit
  \/ SqrtEnter \/ SqrtIter \/ SqrtCap

Spec == Init /\ [][Next]_vars

\* ---------------------------------------------------------------- claims

Done(m, o) == mode = m /\ pc = "done" /\ op = o

\* The exact product raw(a) * raw(b), and the product's value in raw units
\* lying in the int32_t range.
ExactProduct == I64Mul(I64(a), I64(b))

ProductFits ==
  /\ I64LessEq(I64Mul(I64(MinInt32), I64(ONE)), ExactProduct)
  /\ I64LessEq(ExactProduct, I64Mul(I64(MaxInt32), I64(ONE)))

\* r * SCALE - raw(a) * raw(b)
MulError == I64Add(I64Mul(I64(r), I64(ONE)), I64Neg(ExactProduct))

\* C1: a * b is the product rounded to the nearest raw value, for products
\* of either sign: |r * SCALE - raw(a) * raw(b)| <= SCALE / 2, an exact
\* tie going to the larger raw value.
C1_MulRoundsToNearest ==
  (Done("arith", "Mul") /\ ProductFits) =>
    /\ I64Less(I64(-HALF), MulError)
    /\ I64LessEq(MulError, I64(HALF))

\* C2: the product of two integer-valued scalars is the integer-valued
\* scalar of the product, FromInteger(k) * FromInteger(m) ==
\* FromInteger(k * m), whatever the signs (so x * FromInteger(1) == x).
C2_IntegerMulExact ==
  Done("arith", "Mul") =>
    \A k, m \in Integers32 :
      (a = k * ONE /\ b = m * ONE) => r = (k * m) * ONE

\* C3: a quotient of integer-valued scalars that is an integer is exact:
\* FromInteger(q * m) / FromInteger(m) == FromInteger(q) for m # 0,
\* whatever the signs, and a /= b leaves the same value in a.
C3_IntegerDivExact ==
  \A q, m \in Integers32 :
    (m # 0 /\ q * m \in Integers32 /\ a = (q * m) * ONE /\ b = m * ONE) =>
      /\ Done("arith", "Div") => (err = "None" /\ r = q * ONE)
      /\ Done("arith", "DivAssign") => (err = "None" /\ acc = q * ONE)

\* The divisor of the division just performed has a zero raw value (for a
\* Vec3 divisor: in at least one component).
ZeroDivisor == IF mode = "vecvec" THEN w.x = 0 \/ w.y = 0 \/ w.z = 0 ELSE b = 0

\* C4: a division (Unit / and /=, Vec3 / and /= by a Unit, Vec3 / and /=
\* by a Vec3) fails with DivisionByZero exactly when the divisor's raw
\* value (one component's, for a Vec3 divisor) is 0, whatever the
\* dividend; a failed /= leaves its left operand as it was.
C4_DivisionByZero ==
  (mode \in {"arith", "vecunit", "vecvec"} /\ pc = "done" /\ op \in {"Div", "DivAssign"}) =>
    /\ (err = "DivisionByZero") <=> ZeroDivisor
    /\ ~ZeroDivisor => err = "None"
    /\ ZeroDivisor => (acc = a /\ vacc = v /\ r = 0 /\ rv = ZeroVec)

C4_Witness ==
  /\ Done("vecvec", "DivAssign")
  /\ w.x # 0 /\ w.y # 0 /\ w.z = 0 /\ v.x = MaxInt32
  /\ err = "DivisionByZero" /\ vacc = v

\* C5: SqrtNewton fails exactly for a negative raw argument, and then with
\* InvalidArgument; for raw 0 it returns the zero scalar; for every raw > 0
\* it returns a value and u / x is never evaluated with the iterate x at
\* raw 0, so that DivisionByZero never arises.
C5_SqrtFailsIffNegative ==
  mode = "sqrt" =>
    /\ err # "DivisionByZero"
    /\ pc = "loop" => (u > 0 /\ x # 0)
    /\ pc = "done" =>
         /\ u < 0 => err = "InvalidArgument"
         /\ u = 0 => (err = "None" /\ r = 0)
         /\ u > 0 => err = "None"

C5_Witness ==
  /\ Done("sqrt", "SqrtNewton")
  /\ u = MaxInt32 /\ i = MAX_ITER /\ err = "None"

\* |g - SCALE * sqrt(k)| <= t for the raw value g, g >= t, and the argument
\* of raw value p = k * SCALE:  (g - t)^2 <= p * SCALE <= (g + t)^2.
WithinOfRoot(g, p, t) ==
  /\ g >= t
  /\ I64LessEq(I64Mul(I64(g - t), I64(g - t)), I64Mul(I64(p), I64(ONE)))
  /\ I64LessEq(I64Mul(I64(p), I64(ONE)), I64Mul(I64(g + t), I64(g + t)))

\* C6: for each of the integers k whose root the tests assert, the raw
\* value of SqrtNewton(FromInteger(k)) is within 3 raw units (1e-4 in
\* value) of SCALE * sqrt(k).
C6_SqrtAccurateOnReferenceInputs ==
  (mode = "sqrt" /\ pc = "done") =>
    \A k \in RefInputs :
      u = k * ONE => (err = "None" /\ WithinOfRoot(r, u, 3))

C6_Witness ==
  /\ Done("sqrt", "SqrtNewton")
  /\ u = 10000 * ONE /\ r = 100 * ONE /\ err = "None"

\* C7: adding and then subtracting the same operand gives back the vector:
\* (v + w) - w == v and (v + b) - b == v, and += followed by -= restores
\* the vector, for every raw component value, also when the sum wraps
\* around the int32_t range.
C7_VecAddSubInverse ==
  (mode \in {"vecvec", "vecunit"} /\ pc = "done") =>
    /\ op = "AddSub" => VecEq(rv, v)
    /\ op = "AddSubAssign" => VecEq(vacc, v)

C7_Witness ==
  /\ Done("vecvec", "AddSub")
  /\ v.x = MaxInt32 /\ w.x = ONE /\ v.y = MinInt32 /\ w.y = MinInt32
  /\ rv = v

\* Integers k with k * SCALE in the int32_t range.
Scalable(k) == -65536 <= k /\ k <= 65535

\* C8: the ordering operators with an integer right operand compare the
\* raw value with the integer as it is, a < n being raw(a) < n, while those
\* with a scalar right operand FromInteger(n) compare raw(a) with
\* n * SCALE; so FromInteger(1) < 2 is false and FromInteger(1) <
\* FromInteger(2) is true.
C8_IntegerOrderingUnscaled ==
  /\ Done("cmp", "CompareInt") =>
       cmp = [gt |-> a > n, ge |-> a >= n, lt |-> a < n, le |-> a <= n]
  /\ (Done("cmp", "CompareUnit") /\ Scalable(n)) =>
       cmp = [gt |-> a > n * ONE, ge |-> a >= n * ONE,
              lt |-> a < n * ONE, le |-> a <= n * ONE]
  /\ (pc = "done" /\ mode = "cmp" /\ a = ONE /\ n = 2) =>
       (cmp.lt <=> op = "CompareUnit")

C8_Witness ==
  /\ Done("cmp", "CompareInt")
  /\ a = ONE /\ n = 2 /\ ~cmp.lt /\ cmp.gt

\* C9: the Newton iteration starts from the larger of the argument and the
\* scale constant: the first iterate has raw value max(raw(u), SCALE), and
\* is 1.0 (raw SCALE) for every argument with 0 < raw(u) < SCALE.
C9_InitialGuessIsMax ==
  (mode = "sqrt" /\ pc = "loop" /\ i = 0) =>
    x = (IF u >= ONE THEN u ELSE ONE)

\* C10: for every argument with raw > 0 the loop is left by its convergence
\* check, within the cap of MAX_ITER passes, and the value returned is a
\* fixed point of the step x -> (x + u / x) / 2.
C10_SqrtConvergesBeforeCap ==
  (mode = "sqrt" /\ pc = "done" /\ u > 0 /\ err = "None") =>
    /\ converged
    /\ i < MAX_ITER
    /\ r # 0 /\ NewtonStep(u, r) = r

====
